---- MODULE Spec2Model ----
(***************************************************************************)
(* Model of src/calculator.py: the Tkinter calculator's expression        *)
(* pipeline (_safe_prepare, _safe_eval, eval over EVAL_GLOBALS) and the    *)
(* UI handlers that drive it (_add, _on_key, _back, _clear, _eval,         *)
(* _update_display).                                                       *)
(*                                                                         *)
(* Text is a sequence of one-character strings.                            *)
(*                                                                         *)
(* eval() is modelled as CPython 3.11 runs it on texts the character       *)
(* whitelist lets through: its tokens, its expression grammar, the values  *)
(* of its operators and of the SAFE_MATH functions, and the exceptions     *)
(* they raise. Two things are carried less exactly than the interpreter    *)
(* does. A float is the exact fraction its text stands for, not the        *)
(* nearest binary float, and a float without a finite fraction (pi, e, a   *)
(* sine) is known by its sign only. An int of ten digits or more is known  *)
(* by its sign and by bounds on its number of digits. Where a text needs   *)
(* digits the model does not carry, "?" stands for them.                   *)
(*                                                                         *)
(* Three specifications share the definitions:                             *)
(*   Spec       the window driven by button and key events                 *)
(*   SpecPower  the window driven by the keys that build integer powers    *)
(*   SpecEval   one call of _safe_eval, followed statement by statement    *)
(***************************************************************************)
EXTENDS Integers, Sequences, FiniteSets, TLC

\* ------------------------------------------------------------------------
\* Bounds of the model
\* ------------------------------------------------------------------------
\* longest expression (in characters) the UI model lets the user build
MaxLen == 3
\* most input fragments concatenated into one text for the evaluator model
MaxFrags == 3
\* longest expression the UI model lets the user build from the power keys
MaxPowerLen == 7

\* ------------------------------------------------------------------------
\* Characters
\* ------------------------------------------------------------------------
Digits == {"0", "1", "2", "3", "4", "5", "6", "7", "8", "9"}

Letters ==
  {"a", "b", "c", "d", "e", "f", "g", "h", "i", "j", "k", "l", "m",
   "n", "o", "p", "q", "r", "s", "t", "u", "v", "w", "x", "y", "z",
   "A", "B", "C", "D", "E", "F", "G", "H", "I", "J", "K", "L", "M",
   "N", "O", "P", "Q", "R", "S", "T", "U", "V", "W", "X", "Y", "Z"}

\* str.strip() and the regex class \s, over the characters the model uses
Whitespace == {" ", "\t", "\n"}

\* a variant of the character class that also lets the caret through
AllowedCharsWithCaret ==
  Digits \cup {"+", "-", "*", "/", "(", ")", ".", "%", " ", "\t", "\n", ",", "^"}
         \cup Letters \cup {"_"}

\* the character class of ALLOWED_CHARS_RE: [0-9+\-*/().% \t\n,a-zA-Z_]
ALLOWED_CHARS ==
  Digits \cup {"+", "-", "*", "/", "(", ")", ".", "%", " ", "\t", "\n", ","}
         \cup Letters \cup {"_"}

\* ALLOWED_CHARS_RE.match(expr): ^[class]*$ accepts exactly the texts all of
\* whose characters are in the class
AllowedCharsMatch(s) == \A i \in 1..Len(s) : s[i] \in ALLOWED_CHARS

\* not expr.strip()
IsBlank(s) == \A i \in 1..Len(s) : s[i] \in Whitespace

\* sub in s: s contains sub as a contiguous substring
Contains(s, sub) ==
  \E i \in 1..(Len(s) - Len(sub) + 1) : SubSeq(s, i, i + Len(sub) - 1) = sub

\* ------------------------------------------------------------------------
\* _safe_prepare
\* ------------------------------------------------------------------------
RECURSIVE RunEnd(_, _, _)
\* index just after the longest run of characters of set cs starting at i
RunEnd(s, i, cs) ==
  IF i <= Len(s) /\ s[i] \in cs THEN RunEnd(s, i + 1, cs) ELSE i

RECURSIVE PercentSub(_, _)
\* re.sub(r'(\d+(\.\d+)?)\s*%', r'(\1/100)', expr), scanning from index i:
\* leftmost non-overlapping matches; \d+ and the optional group are greedy
\* and no shorter choice can match, since the character after a shortened
\* digit run is a digit or a dot, never whitespace or %
PercentSub(s, i) ==
  IF i > Len(s) THEN <<>>
  ELSE LET j == RunEnd(s, i, Digits)
       IN IF j = i THEN <<s[i]>> \o PercentSub(s, i + 1)
          ELSE LET k == IF j + 1 <= Len(s) /\ s[j] = "." /\ s[j + 1] \in Digits
                        THEN RunEnd(s, j + 1, Digits) ELSE j
                   m == RunEnd(s, k, Whitespace)
               IN IF m <= Len(s) /\ s[m] = "%"
                  THEN <<"(">> \o SubSeq(s, i, k - 1) \o <<"/", "1", "0", "0", ")">>
                       \o PercentSub(s, m + 1)
                  ELSE <<s[i]>> \o PercentSub(s, i + 1)

RECURSIVE CaretSub(_)
\* expr.replace('^', '**')
CaretSub(s) ==
  IF s = <<>> THEN <<>>
  ELSE (IF Head(s) = "^" THEN <<"*", "*">> ELSE <<Head(s)>>) \o CaretSub(Tail(s))

safe_prepare(expr) == CaretSub(PercentSub(expr, 1))

\* ------------------------------------------------------------------------
\* the unsafe-token screen of _safe_eval
\* ------------------------------------------------------------------------
\* a variant of the screen that forgets the word eval
IsUnsafeWithoutEval(prepared) ==
  \/ Contains(prepared, <<"_", "_">>)
  \/ Contains(prepared, <<"i", "m", "p", "o", "r", "t">>)
  \/ Contains(prepared, <<"e", "x", "e", "c">>)

IsUnsafe(prepared) ==
  \/ Contains(prepared, <<"_", "_">>)
  \/ Contains(prepared, <<"i", "m", "p", "o", "r", "t">>)
  \/ Contains(prepared, <<"e", "x", "e", "c">>)
  \/ Contains(prepared, <<"e", "v", "a", "l">>)

\* ------------------------------------------------------------------------
\* Values of the evaluated language
\* ------------------------------------------------------------------------
\* Every value is a record [t, n, d, f]:
\*   t = "int"    the integer n
\*   t = "bool"   True (n = 1) or False (n = 0)
\*   t = "float"  d > 0: the float written n/d in lowest terms, f = "-0"
\*                for the negative zero; d = 0: a float whose digits the
\*                model does not carry, of sign n (1, -1, or 0 when the
\*                sign is not known and the float may be zero), f = "pi",
\*                "e" or "irr"
\*   t = "long"   an integer of ten digits or more, whose digits the model
\*                does not carry: d and |n| are a lower and an upper bound
\*                on the number of its digits, the upper one cut off at
\*                10000 (which then reads "10000 or more"), and the sign of
\*                n is its sign; an integer sure to have 10000 digits or
\*                more is outside the model
\*   t = "func"   the callable bound to the name f in SAFE_MATH
\*   t = "obj"    another non-numeric object, of kind f
\*   t = "fault"  the exception f raised while evaluating
\*   t = "untracked"  a value outside what the model represents
IntV(k) == [t |-> "int", n |-> k, d |-> 1, f |-> ""]

BoolV(b) == [t |-> "bool", n |-> IF b THEN 1 ELSE 0, d |-> 1, f |-> ""]

Func(name) == [t |-> "func", n |-> 0, d |-> 0, f |-> name]

Obj(kind) == [t |-> "obj", n |-> 0, d |-> 0, f |-> kind]

Fault(kind) == [t |-> "fault", n |-> 0, d |-> 0, f |-> kind]

Untracked == [t |-> "untracked", n |-> 0, d |-> 0, f |-> ""]

\* a count of digits, cut off at 10000
Sat(k) == IF k > 10000 THEN 10000 ELSE k

Long(sign, lo, hi) ==
  IF lo >= 10000 THEN Untracked ELSE [t |-> "long", n |-> sign * Sat(hi), d |-> lo, f |-> ""]

Opaque(sign) == [t |-> "float", n |-> sign, d |-> 0, f |-> "irr"]

NegZero == [t |-> "float", n |-> 0, d |-> 1, f |-> "-0"]

Abs(k) == IF k < 0 THEN -k ELSE k

Sgn(k) == IF k < 0 THEN -1 ELSE IF k > 0 THEN 1 ELSE 0

RECURSIVE GCD(_, _)
GCD(a, b) == IF b = 0 THEN a ELSE GCD(b, a % b)

\* the float num/den (den > 0); a zero result is the positive zero
MkFloat(num, den) ==
  LET g == GCD(Abs(num), den)
  IN [t |-> "float", n |-> num \div g, d |-> den \div g, f |-> ""]

\* the float num/den, with the zero of the given sign
MkFloatZ(num, den, negzero) ==
  IF num = 0 /\ negzero THEN NegZero ELSE MkFloat(num, den)

IsNum(v) == v.t \in {"int", "bool", "float"}

IsIntLike(v) == v.t \in {"int", "bool"}

IsOpaque(v) == v.t = "float" /\ v.d = 0

IsZero(v) == IsNum(v) /\ ~IsOpaque(v) /\ v.n = 0

\* the sign bit of a number: TRUE for negatives and for the float -0.0
IsNeg(v) == v.n < 0 \/ (v.t = "float" /\ v.f = "-0")

\* floor division and modulo of integers as Python defines them (b # 0)
FloorDiv(a, b) == IF b > 0 THEN a \div b ELSE (-a) \div (-b)

PyMod(a, b) == a - b * FloorDiv(a, b)

RECURSIVE IntPow(_, _)
IntPow(b, k) == IF k = 0 THEN 1 ELSE b * IntPow(b, k - 1)

RECURSIVE ModPow(_, _, _)
\* pow(a, k, m) for k >= 0 and 0 < |m| <= 30000, by squaring
ModPow(a, k, m) ==
  IF k = 0 THEN PyMod(1, m)
  ELSE LET h == ModPow(a, k \div 2, m)
           sq == PyMod(h * h, m)
       IN IF k % 2 = 1 THEN PyMod(sq * PyMod(a, m), m) ELSE sq

RECURSIVE DigitLen(_)
\* the number of decimal digits of the natural number k
DigitLen(k) == IF k < 10 THEN 1 ELSE 1 + DigitLen(k \div 10)

\* the int k, for |k| below 2 * 10^9
MkInt(k) == IF k > -1000000000 /\ k < 1000000000 THEN IntV(k) ELSE Long(Sgn(k), 10, 10)

\* the bounds on the digits of an int, and its sign
LongLo(v) == IF v.t = "long" THEN v.d ELSE DigitLen(Abs(v.n))

LongHi(v) == IF v.t = "long" THEN Abs(v.n) ELSE DigitLen(Abs(v.n))

\* a * b for ints: a product of da and db digits has da + db - 1 or da + db
IntMul(a, b) ==
  IF IsZero(a) \/ IsZero(b) THEN IntV(0)
  ELSE IF a.t # "long" /\ b.t # "long" /\ Abs(a.n) <= 999999999 \div Abs(b.n)
  THEN IntV(a.n * b.n)
  ELSE Long(Sgn(a.n) * Sgn(b.n), LongLo(a) + LongLo(b) - 1, LongHi(a) + LongHi(b))

RECURSIVE FitExp(_, _, _)
\* the largest j with a^j below 10^9, for a >= 2, counting up from a^j = p
FitExp(a, p, j) == IF p <= 999999999 \div a THEN FitExp(a, p * a, j + 1) ELSE j

\* a ** k for an int a and k >= 0. With j the largest exponent whose power
\* P = |a|^j the model carries, L the digits of P and k = q*j + r:
\* 10^((L-1)*q) <= |a|^k < 10^(L*q + r*digits(a))
IntPower(a, k) ==
  IF k = 0 THEN IntV(1)
  ELSE IF a \in {0, 1} THEN IntV(a)
  ELSE IF a = -1 THEN IntV(IF k % 2 = 0 THEN 1 ELSE -1)
  ELSE LET j == FitExp(Abs(a), Abs(a), 1)
           L == DigitLen(IntPow(Abs(a), j))
           q == k \div j
           r == k % j
           sign == IF a < 0 /\ k % 2 = 1 THEN -1 ELSE 1
       IN IF k <= j THEN IntV(IntPow(a, k))
          ELSE Long(sign, (L - 1) * Sat(q) + 1,
                    IF q >= 10000 THEN 10000 ELSE L * q + r * DigitLen(Abs(a)))

\* a op b for ints of which at least one is a long
LongBinOp(op, a, b) ==
  IF op = "*" THEN IntMul(a, b)
  ELSE IF op = "**" /\ b.t # "long" /\ b.n >= 0
  THEN IF b.n = 0 THEN IntV(1)
       ELSE Long(IF a.n < 0 /\ b.n % 2 = 1 THEN -1 ELSE 1,
                 (LongLo(a) - 1) * Sat(b.n) + 1, LongHi(a) * Sat(b.n))
  ELSE IF op = "**" /\ b.t = "long" /\ b.n > 0 /\ a.t # "long" /\ a.n \in {0, 1}
  THEN IntV(a.n)
  ELSE Untracked

\* float(v) for an int or bool v; a float is returned as it is
ToFloat(v) == IF v.t = "float" THEN v ELSE MkFloat(v.n, 1)

\* -v for a number
NumNeg(v) ==
  IF IsIntLike(v) THEN IntV(-v.n)
  ELSE IF v.t = "long" THEN [v EXCEPT !.n = -v.n]
  ELSE IF IsOpaque(v) THEN Opaque(-v.n)
  ELSE IF v.n = 0 THEN (IF v.f = "-0" THEN MkFloat(0, 1) ELSE NegZero)
  ELSE MkFloat(-v.n, v.d)

\* a + b for floats
FloatAdd(a, b) ==
  IF IsOpaque(a) \/ IsOpaque(b)
  THEN IF IsZero(a) THEN b
       ELSE IF IsZero(b) THEN a
       ELSE IF IsOpaque(a) /\ IsOpaque(b) /\ a.n = b.n THEN Opaque(a.n)
       ELSE IF IsOpaque(a) /\ ~IsOpaque(b) /\ Sgn(b.n) = a.n THEN Opaque(a.n)
       ELSE IF IsOpaque(b) /\ ~IsOpaque(a) /\ Sgn(a.n) = b.n THEN Opaque(b.n)
       ELSE Opaque(0)
  ELSE MkFloatZ(a.n * b.d + b.n * a.d, a.d * b.d, IsNeg(a) /\ IsNeg(b))

\* a * b for floats
FloatMul(a, b) ==
  IF (IsOpaque(a) /\ a.n = 0) \/ (IsOpaque(b) /\ b.n = 0) THEN Opaque(0)
  ELSE IF IsZero(a) \/ IsZero(b) THEN MkFloatZ(0, 1, IsNeg(a) # IsNeg(b))
  ELSE IF IsOpaque(a) \/ IsOpaque(b) THEN Opaque(Sgn(a.n) * Sgn(b.n))
  ELSE MkFloat(a.n * b.n, a.d * b.d)

\* a / b for floats
FloatDiv(a, b) ==
  IF IsZero(b) THEN Fault("ZeroDivisionError")
  ELSE IF IsOpaque(b) /\ b.n = 0 THEN Untracked
  ELSE IF IsZero(a) THEN MkFloatZ(0, 1, IsNeg(a) # IsNeg(b))
  ELSE IF IsOpaque(a) \/ IsOpaque(b) THEN Opaque(Sgn(a.n) * Sgn(b.n))
  ELSE MkFloat(a.n * b.d * Sgn(b.n), a.d * Abs(b.n))

\* a // b for floats
FloatFloorDiv(a, b) ==
  IF IsZero(b) THEN Fault("ZeroDivisionError")
  ELSE IF IsOpaque(b) /\ b.n = 0 THEN Untracked
  ELSE IF IsOpaque(a) \/ IsOpaque(b) THEN Opaque(0)
  ELSE LET q == FloorDiv(a.n * b.d, a.d * b.n)
       IN MkFloatZ(q, 1, IsNeg(a) # IsNeg(b))

\* a % b for floats: the result takes the sign of b
FloatMod(a, b) ==
  IF IsZero(b) THEN Fault("ZeroDivisionError")
  ELSE IF IsOpaque(b) /\ b.n = 0 THEN Untracked
  ELSE IF IsOpaque(a) \/ IsOpaque(b) THEN Opaque(0)
  ELSE LET q == FloorDiv(a.n * b.d, a.d * b.n)
       IN MkFloatZ(a.n * b.d - q * b.n * a.d, a.d * b.d, IsNeg(b))

RECURSIVE FloatIPow(_, _)
\* a ** k for a float a and an integer k >= 0
FloatIPow(a, k) == IF k = 0 THEN MkFloat(1, 1) ELSE FloatMul(a, FloatIPow(a, k - 1))

\* a ** b for floats
FloatPow(a, b) ==
  IF IsZero(b) THEN MkFloat(1, 1)
  ELSE IF IsOpaque(a) \/ IsOpaque(b)
  THEN IF IsZero(a)
       THEN (IF b.n < 0 THEN Fault("ZeroDivisionError")
             ELSE IF b.n > 0 THEN MkFloat(0, 1) ELSE Untracked)
       ELSE IF a.n > 0 THEN Opaque(1) ELSE Untracked
  ELSE IF b.d = 1
  THEN IF b.n > 0 THEN FloatIPow(a, b.n)
       ELSE IF IsZero(a) THEN Fault("ZeroDivisionError")
       ELSE FloatDiv(MkFloat(1, 1), FloatIPow(a, -b.n))
  ELSE IF IsZero(a)
  THEN (IF b.n < 0 THEN Fault("ZeroDivisionError") ELSE MkFloat(0, 1))
  ELSE IF a.n < 0 THEN Obj("complex")
  ELSE IF a.n = a.d THEN MkFloat(1, 1)
  ELSE Opaque(1)

\* a op b for two ints (bools count as ints)
IntBinOp(op, a, b) ==
  CASE op = "+" -> MkInt(a + b)
    [] op = "-" -> MkInt(a - b)
    [] op = "*" -> IntMul(IntV(a), IntV(b))
    [] op = "/" -> IF b = 0 THEN Fault("ZeroDivisionError")
                   ELSE MkFloatZ(a * Sgn(b), Abs(b), a = 0 /\ b < 0)
    [] op = "//" -> IF b = 0 THEN Fault("ZeroDivisionError") ELSE IntV(FloorDiv(a, b))
    [] op = "%" -> IF b = 0 THEN Fault("ZeroDivisionError") ELSE IntV(PyMod(a, b))
    [] op = "**" -> IF b >= 0 THEN IntPower(a, b)
                    ELSE IF a = 0 THEN Fault("ZeroDivisionError")
                    ELSE FloatPow(MkFloat(a, 1), MkFloat(b, 1))

\* a op b for two numbers of which at least one is a float
FloatBinOp(op, a, b) ==
  CASE op = "+" -> FloatAdd(a, b)
    [] op = "-" -> FloatAdd(a, NumNeg(b))
    [] op = "*" -> FloatMul(a, b)
    [] op = "/" -> FloatDiv(a, b)
    [] op = "//" -> FloatFloorDiv(a, b)
    [] op = "%" -> FloatMod(a, b)
    [] op = "**" -> FloatPow(a, b)

\* the binary operators of the language, operands already evaluated left to
\* right: the first exception raised wins
BinOp(op, a, b) ==
  IF a.t = "fault" THEN a
  ELSE IF b.t = "fault" THEN b
  ELSE IF a.t = "untracked" \/ b.t = "untracked" THEN Untracked
  ELSE IF (a.t = "long" /\ (IsIntLike(b) \/ b.t = "long")) \/ (IsIntLike(a) /\ b.t = "long")
  THEN LongBinOp(op, a, b)
  ELSE IF a.t = "long" \/ b.t = "long" THEN Untracked
  ELSE IF IsIntLike(a) /\ IsIntLike(b) THEN IntBinOp(op, a.n, b.n)
  ELSE IF IsNum(a) /\ IsNum(b) THEN FloatBinOp(op, ToFloat(a), ToFloat(b))
  ELSE IF a.f = "complex" \/ b.f = "complex" THEN Untracked
  ELSE IF op = "+" /\ a.f = "tuple" /\ b.f = "tuple" THEN Obj("tuple")
  ELSE IF op = "*" /\ ((a.f = "tuple" /\ IsIntLike(b)) \/ (IsIntLike(a) /\ b.f = "tuple"))
  THEN Obj("tuple")
  ELSE Fault("TypeError")

\* the unary operators + and -
UnaryOp(op, a) ==
  IF a.t \in {"fault", "untracked"} THEN a
  ELSE IF IsNum(a) \/ a.t = "long"
  THEN (IF op = "-" THEN NumNeg(a) ELSE IF a.t = "bool" THEN IntV(a.n) ELSE a)
  ELSE IF a.f = "complex" THEN a
  ELSE Fault("TypeError")

\* ------------------------------------------------------------------------
\* eval(prepared, EVAL_GLOBALS, {}): the tokens of the expression
\* ------------------------------------------------------------------------
\* A token is a record [k, op, name, v]: k = "num" with value v, k = "name"
\* with the identifier name, k = "op" with the operator op, k = "err" for
\* text that is no token, k = "end" after the last token.
NumTok(val) == [k |-> "num", op |-> "", name |-> <<>>, v |-> val]

NameTok(chars) == [k |-> "name", op |-> "", name |-> chars, v |-> IntV(0)]

OpTok(o) == [k |-> "op", op |-> o, name |-> <<>>, v |-> IntV(0)]

ErrTok == [k |-> "err", op |-> "", name |-> <<>>, v |-> IntV(0)]

\* a line that starts with whitespace after the first line
IndentTok == [k |-> "err", op |-> "indent", name |-> <<>>, v |-> IntV(0)]

EndTok == [k |-> "end", op |-> "", name |-> <<>>, v |-> IntV(0)]

HexDigitSeq ==
  <<"0", "1", "2", "3", "4", "5", "6", "7", "8", "9", "a", "b", "c", "d", "e", "f">>

HexUpperSeq ==
  <<"0", "1", "2", "3", "4", "5", "6", "7", "8", "9", "A", "B", "C", "D", "E", "F">>

\* the value of one digit character in a radix up to 16
DigitVal(c) ==
  IF \E i \in 1..16 : HexDigitSeq[i] = c
  THEN (CHOOSE i \in 1..16 : HexDigitSeq[i] = c) - 1
  ELSE (CHOOSE i \in 1..16 : HexUpperSeq[i] = c) - 1

\* the digit characters of a radix
RadixDigits(radix) ==
  {HexDigitSeq[i] : i \in 1..radix} \cup {HexUpperSeq[i] : i \in 1..radix}

NameStart == Letters \cup {"_"}

NameChars == Letters \cup Digits \cup {"_"}

IsOp(tok, o) == tok.k = "op" /\ tok.op = o

RECURSIVE DigitPartEnd(_, _, _)
\* index just after digit (_? digit)* starting at the digit s[i]
DigitPartEnd(s, i, ds) ==
  IF i + 1 <= Len(s) /\ s[i + 1] \in ds THEN DigitPartEnd(s, i + 1, ds)
  ELSE IF i + 2 <= Len(s) /\ s[i + 1] = "_" /\ s[i + 2] \in ds
  THEN DigitPartEnd(s, i + 2, ds)
  ELSE i + 1

RECURSIVE DigitsValue(_, _, _, _, _)
\* the number written by the digits of s[i..j-1] in the radix, underscores
\* skipped, continuing from the value acc
DigitsValue(s, i, j, radix, acc) ==
  IF i >= j THEN acc
  ELSE IF s[i] = "_" THEN DigitsValue(s, i + 1, j, radix, acc)
  ELSE DigitsValue(s, i + 1, j, radix, acc * radix + DigitVal(s[i]))

RECURSIVE DigitCount(_, _, _)
\* how many digits s[i..j-1] holds, underscores skipped
DigitCount(s, i, j) ==
  IF i >= j THEN 0
  ELSE (IF s[i] = "_" THEN 0 ELSE 1) + DigitCount(s, i + 1, j)

\* a number literal may not run into an identifier character or a digit
EndsNumber(s, j) == j > Len(s) \/ s[j] \notin NameChars

\* the radix a prefix letter announces
PrefixRadix(c) == IF c \in {"x", "X"} THEN 16 ELSE IF c \in {"o", "O"} THEN 8 ELSE 2

\* the literal 0x.., 0o.. or 0b.. at s[i]: [tok, next]; the model carries
\* the value of a literal of at most 30 bits
LexRadix(s, i, radix) ==
  LET ds == RadixDigits(radix)
      b == IF i + 2 <= Len(s) /\ s[i + 2] = "_" THEN i + 3 ELSE i + 2
  IN IF b <= Len(s) /\ s[b] \in ds
     THEN LET j == DigitPartEnd(s, b, ds)
          IN IF EndsNumber(s, j)
             THEN [tok |-> NumTok(IF DigitCount(s, b, j) * (IF radix = 16 THEN 4 ELSE IF radix = 8 THEN 3 ELSE 1) > 30
                                  THEN Untracked
                                  ELSE IntV(DigitsValue(s, b, j, radix, 0))),
                   next |-> j]
             ELSE [tok |-> ErrTok, next |-> j]
     ELSE [tok |-> ErrTok, next |-> i]

\* index after the digit part that starts at s[i], i itself where no digit
\* stands
DigitsEnd(s, i) ==
  IF i <= Len(s) /\ s[i] \in Digits THEN DigitPartEnd(s, i, Digits) ELSE i

\* a decimal point stands at s[j]
HasPoint(s, j) == j <= Len(s) /\ s[j] = "."

\* index of the first digit of the exponent that starts at s[j], 0 where no
\* exponent starts: e or E, an optional sign, a digit
ExponentStart(s, j) ==
  IF j <= Len(s) /\ s[j] \in {"e", "E"}
  THEN IF j + 1 <= Len(s) /\ s[j + 1] \in {"+", "-"}
       THEN IF j + 2 <= Len(s) /\ s[j + 2] \in Digits THEN j + 2 ELSE 0
       ELSE IF j + 1 <= Len(s) /\ s[j + 1] \in Digits THEN j + 1 ELSE 0
  ELSE 0

\* the float mant * 10 ** shift, where the value has at most 9 digits: the
\* model carries no longer literal digit by digit
ScaledFloat(mant, shift) ==
  IF shift >= 0
  THEN IF DigitLen(mant) + shift > 9 THEN Untracked
       ELSE MkFloat(mant * IntPow(10, shift), 1)
  ELSE IF -shift > 9 THEN Untracked
  ELSE MkFloat(mant, IntPow(10, -shift))

\* the value of the float literal s[i..j3-1]: integer digits up to j1,
\* fraction digits up to j2, exponent digits from e1 (0: none) up to j3
FloatLiteral(s, i, j1, j2, e1, j3) ==
  IF \/ DigitCount(s, i, j1)
          + DigitCount(s, IF HasPoint(s, j1) THEN j1 + 1 ELSE j1, j2) > 9
     \/ e1 > 0 /\ DigitCount(s, e1, j3) > 2
  THEN Untracked
  ELSE ScaledFloat(
         DigitsValue(s, IF HasPoint(s, j1) THEN j1 + 1 ELSE j1, j2, 10,
                     DigitsValue(s, i, j1, 10, 0)),
         (IF e1 = 0 THEN 0
          ELSE (IF s[e1 - 1] = "-" THEN -1 ELSE 1) * DigitsValue(s, e1, j3, 10, 0))
         - DigitCount(s, IF HasPoint(s, j1) THEN j1 + 1 ELSE j1, j2))

\* the token of the decimal integer literal s[i..j-1]: a nonzero number may
\* not start with the digit 0; a literal of more than 9 digits
\* is a long integer
IntLiteral(s, i, j) ==
  IF DigitCount(s, i, j) > 9
  THEN IF s[i] # "0"
       THEN [tok |-> NumTok(Long(1, DigitCount(s, i, j), DigitCount(s, i, j))), next |-> j]
       ELSE IF \A k \in i..(j - 1) : s[k] \in {"0", "_"}
       THEN [tok |-> NumTok(IntV(0)), next |-> j]
       ELSE [tok |-> ErrTok, next |-> j]
  ELSE IF s[i] = "0" /\ DigitsValue(s, i, j, 10, 0) # 0 THEN [tok |-> ErrTok, next |-> j]
  ELSE [tok |-> NumTok(IntV(DigitsValue(s, i, j, 10, 0))), next |-> j]

\* the token of the literal scanned up to j3, an imaginary suffix included
LexSuffix(s, i, j1, j2, e1, j3) ==
  LET isImag == j3 <= Len(s) /\ s[j3] \in {"j", "J"}
  IN IF ~EndsNumber(s, IF isImag THEN j3 + 1 ELSE j3)
     THEN [tok |-> ErrTok, next |-> IF isImag THEN j3 + 1 ELSE j3]
     ELSE IF isImag THEN [tok |-> NumTok(Obj("complex")), next |-> j3 + 1]
     ELSE IF HasPoint(s, j1) \/ e1 > 0
     THEN [tok |-> NumTok(FloatLiteral(s, i, j1, j2, e1, j3)), next |-> j3]
     ELSE IntLiteral(s, i, j1)

\* the exponent of the literal whose fraction ends before j2
LexFraction(s, i, j1, j2) ==
  LexSuffix(s, i, j1, j2, ExponentStart(s, j2),
            IF ExponentStart(s, j2) > 0
            THEN DigitPartEnd(s, ExponentStart(s, j2), Digits) ELSE j2)

\* the point of the literal whose integer digits end before j1
LexPoint(s, i, j1) ==
  LexFraction(s, i, j1, IF HasPoint(s, j1) THEN DigitsEnd(s, j1 + 1) ELSE j1)

\* the decimal integer, float or imaginary literal at s[i], which is a digit
\* or a dot followed by a digit: [tok, next]
LexDecimal(s, i) == LexPoint(s, i, DigitsEnd(s, i))

\* the token that starts at s[i], which is not whitespace: [tok, next]
LexOne(s, i) ==
  LET c == s[i]
      c1 == IF i + 1 <= Len(s) THEN s[i + 1] ELSE ""
      c2 == IF i + 2 <= Len(s) THEN s[i + 2] ELSE ""
  IN IF c = "0" /\ c1 \in {"x", "X", "o", "O", "b", "B"}
     THEN LexRadix(s, i, PrefixRadix(c1))
     ELSE IF c \in Digits \/ (c = "." /\ c1 \in Digits) THEN LexDecimal(s, i)
     ELSE IF c \in NameStart
     THEN [tok |-> NameTok(SubSeq(s, i, RunEnd(s, i, NameChars) - 1)),
           next |-> RunEnd(s, i, NameChars)]
     ELSE IF c = "." /\ c1 = "." /\ c2 = "." THEN [tok |-> OpTok("..."), next |-> i + 3]
     ELSE IF c = "*" /\ c1 = "*" THEN [tok |-> OpTok("**"), next |-> i + 2]
     ELSE IF c = "/" /\ c1 = "/" THEN [tok |-> OpTok("//"), next |-> i + 2]
     ELSE IF c \in {"+", "-", "*", "/", "%", "(", ")", ",", "."}
     THEN [tok |-> OpTok(c), next |-> i + 1]
     ELSE [tok |-> ErrTok, next |-> i + 1]

\* the number of parentheses open after the token tok
DepthAfter(tok, depth) ==
  IF IsOp(tok, "(") THEN depth + 1
  ELSE IF IsOp(tok, ")") /\ depth > 0 THEN depth - 1
  ELSE depth

RECURSIVE Tokenize(_, _, _, _)
\* the tokens of s from the token r = [tok, next] on
TokenizeFrom(s, r, depth) ==
  IF r.tok.k = "err" THEN <<ErrTok, EndTok>>
  ELSE <<r.tok>> \o Tokenize(s, r.next, DepthAfter(r.tok, depth), FALSE)

\* the tokens of s from the line that starts at index j, after a newline
\* outside parentheses: the line may not start with whitespace (j > i)
\* unless it is blank and itself ended by a newline
TokenizeLine(s, i, j) ==
  IF j > i /\ (j > Len(s) \/ s[j] # "\n") THEN <<IndentTok, EndTok>>
  ELSE Tokenize(s, j, 0, TRUE)

\* the tokens of s from index i on, closed by the end token; scanning stops
\* at the first text that is no token. depth counts the parentheses open at
\* i, fresh tells that the line of i has given no token yet. Inside
\* parentheses a newline is whitespace; outside it ends the line (a blank
\* line gives no token). eval() has stripped the spaces and tabs that lead
\* the text.
Tokenize(s, i, depth, fresh) ==
  IF i > Len(s) THEN <<EndTok>>
  ELSE IF s[i] \in {" ", "\t"} THEN Tokenize(s, i + 1, depth, fresh)
  ELSE IF s[i] = "\n"
  THEN IF depth > 0 THEN Tokenize(s, i + 1, depth, fresh)
       ELSE (IF fresh THEN <<>> ELSE <<OpTok("\n")>>)
            \o TokenizeLine(s, i + 1, RunEnd(s, i + 1, {" ", "\t"}))
  ELSE TokenizeFrom(s, LexOne(s, i), depth)

\* ------------------------------------------------------------------------
\* EVAL_GLOBALS: the names an expression can resolve
\* ------------------------------------------------------------------------
\* SAFE_MATH: 'ln' is bound to the same function as 'log'
SAFE_MATH ==
  {[name |-> <<"s", "i", "n">>, val |-> Func("sin")],
   [name |-> <<"c", "o", "s">>, val |-> Func("cos")],
   [name |-> <<"t", "a", "n">>, val |-> Func("tan")],
   [name |-> <<"a", "s", "i", "n">>, val |-> Func("asin")],
   [name |-> <<"a", "c", "o", "s">>, val |-> Func("acos")],
   [name |-> <<"a", "t", "a", "n">>, val |-> Func("atan")],
   [name |-> <<"s", "q", "r", "t">>, val |-> Func("sqrt")],
   [name |-> <<"p", "o", "w">>, val |-> Func("pow")],
   [name |-> <<"l", "o", "g">>, val |-> Func("log")],
   [name |-> <<"l", "n">>, val |-> Func("log")],
   [name |-> <<"l", "o", "g", "1", "0">>, val |-> Func("log10")],
   [name |-> <<"e", "x", "p">>, val |-> Func("exp")],
   [name |-> <<"a", "b", "s">>, val |-> Func("abs")],
   [name |-> <<"r", "o", "u", "n", "d">>, val |-> Func("round")],
   [name |-> <<"i", "n", "t">>, val |-> Func("int")],
   [name |-> <<"f", "l", "o", "a", "t">>, val |-> Func("float")],
   [name |-> <<"p", "i">>, val |-> [t |-> "float", n |-> 1, d |-> 0, f |-> "pi"]],
   [name |-> <<"e">>, val |-> [t |-> "float", n |-> 1, d |-> 0, f |-> "e"]]}

SafeMathNames == {b.name : b \in SAFE_MATH}

\* the words of the language that are no identifiers; True, False and None
\* are constants, the others build expressions the model does not cover
KeywordOperators ==
  {<<"a", "n", "d">>, <<"a", "s">>,
   <<"a", "s", "s", "e", "r", "t">>, <<"a", "s", "y", "n", "c">>,
   <<"a", "w", "a", "i", "t">>, <<"b", "r", "e", "a", "k">>,
   <<"c", "l", "a", "s", "s">>,
   <<"c", "o", "n", "t", "i", "n", "u", "e">>, <<"d", "e", "f">>,
   <<"d", "e", "l">>, <<"e", "l", "i", "f">>,
   <<"e", "l", "s", "e">>, <<"e", "x", "c", "e", "p", "t">>,
   <<"f", "i", "n", "a", "l", "l", "y">>, <<"f", "o", "r">>,
   <<"f", "r", "o", "m">>, <<"g", "l", "o", "b", "a", "l">>,
   <<"i", "f">>, <<"i", "m", "p", "o", "r", "t">>, <<"i", "n">>,
   <<"i", "s">>, <<"l", "a", "m", "b", "d", "a">>,
   <<"n", "o", "n", "l", "o", "c", "a", "l">>, <<"n", "o", "t">>,
   <<"o", "r">>, <<"p", "a", "s", "s">>,
   <<"r", "a", "i", "s", "e">>, <<"r", "e", "t", "u", "r", "n">>,
   <<"t", "r", "y">>, <<"w", "h", "i", "l", "e">>,
   <<"w", "i", "t", "h">>, <<"y", "i", "e", "l", "d">>}

\* the value of an identifier: EVAL_GLOBALS has no builtins, the locals are
\* empty, so any name outside SAFE_MATH raises NameError
LookupName(nm) ==
  IF nm \in SafeMathNames THEN (CHOOSE b \in SAFE_MATH : b.name = nm).val
  ELSE IF nm = <<"T", "r", "u", "e">> THEN BoolV(TRUE)
  ELSE IF nm = <<"F", "a", "l", "s", "e">> THEN BoolV(FALSE)
  ELSE IF nm = <<"N", "o", "n", "e">> THEN Obj("None")
  ELSE Fault("NameError")

\* ------------------------------------------------------------------------
\* Attribute access on the values an expression can build
\* ------------------------------------------------------------------------
\* the methods of int and of float whose names hold no double underscore
IntMethods ==
  {<<"c", "o", "n", "j", "u", "g", "a", "t", "e">>,
   <<"b", "i", "t", "_", "l", "e", "n", "g", "t", "h">>,
   <<"b", "i", "t", "_", "c", "o", "u", "n", "t">>,
   <<"t", "o", "_", "b", "y", "t", "e", "s">>,
   <<"f", "r", "o", "m", "_", "b", "y", "t", "e", "s">>,
   <<"a", "s", "_", "i", "n", "t", "e", "g", "e", "r", "_", "r", "a", "t", "i", "o">>}

FloatMethods ==
  {<<"c", "o", "n", "j", "u", "g", "a", "t", "e">>,
   <<"i", "s", "_", "i", "n", "t", "e", "g", "e", "r">>,
   <<"a", "s", "_", "i", "n", "t", "e", "g", "e", "r", "_", "r", "a", "t", "i", "o">>,
   <<"h", "e", "x">>, <<"f", "r", "o", "m", "h", "e", "x">>}

TupleMethods ==
  {<<"c", "o", "u", "n", "t">>, <<"i", "n", "d", "e", "x">>}

\* v.nm
GetAttr(v, nm) ==
  LET real == <<"r", "e", "a", "l">>
      imag == <<"i", "m", "a", "g">>
      numerator == <<"n", "u", "m", "e", "r", "a", "t", "o", "r">>
      denominator == <<"d", "e", "n", "o", "m", "i", "n", "a", "t", "o", "r">>
  IN
    IF v.t \in {"fault", "untracked"} THEN v
    ELSE IF v.t = "long" THEN Untracked
    ELSE IF IsIntLike(v)
    THEN IF nm \in {real, numerator} THEN IntV(v.n)
         ELSE IF nm = imag THEN IntV(0)
         ELSE IF nm = denominator THEN IntV(1)
         ELSE IF nm \in IntMethods THEN Obj("method")
         ELSE Fault("AttributeError")
    ELSE IF v.t = "float"
    THEN IF nm = real THEN v
         ELSE IF nm = imag THEN MkFloat(0, 1)
         ELSE IF nm \in FloatMethods THEN Obj("method")
         ELSE Fault("AttributeError")
    ELSE IF v.t = "func" /\ v.f = "int"
    THEN IF nm \in IntMethods \cup {real, imag, numerator, denominator}
         THEN Obj("descriptor") ELSE Fault("AttributeError")
    ELSE IF v.t = "func" /\ v.f = "float"
    THEN IF nm \in FloatMethods \cup {real, imag}
         THEN Obj("descriptor") ELSE Fault("AttributeError")
    ELSE IF v.f = "complex" THEN Untracked
    ELSE IF v.f = "tuple" /\ nm \in TupleMethods THEN Obj("method")
    ELSE Fault("AttributeError")

\* ------------------------------------------------------------------------
\* Calls of the functions in SAFE_MATH
\* ------------------------------------------------------------------------
\* a float whose digits the model carries: compare it with the integer k
FloatGreater(x, k) == x.n > k * x.d

IsSquare(k) == \E r \in 0..k : r * r = k

ISqrt(k) == CHOOSE r \in 0..k : r * r = k

\* the integer nearest to num/den (den > 0), a tie going to the even one
RoundHalfEven(num, den) ==
  LET q == num \div den
      r == num - q * den
  IN IF 2 * r < den THEN q
     ELSE IF 2 * r > den THEN q + 1
     ELSE IF q % 2 = 0 THEN q ELSE q + 1

RECURSIVE DecPlaces(_, _)
\* the number of decimal places of a fraction with lowest-terms denominator
\* den, or -1 when its decimal expansion does not end
DecPlaces(den, k) ==
  IF den = 1 THEN k
  ELSE IF den % 10 = 0 THEN DecPlaces(den \div 10, k + 1)
  ELSE IF den % 2 = 0 THEN DecPlaces(den \div 2, k + 1)
  ELSE IF den % 5 = 0 THEN DecPlaces(den \div 5, k + 1)
  ELSE -1

RECURSIVE IsPowerOfTwo(_)
IsPowerOfTwo(k) == k = 1 \/ (k % 2 = 0 /\ IsPowerOfTwo(k \div 2))

\* the functions of the math module, applied to the float x
MathCall(fname, x) ==
  CASE fname = "sqrt" ->
         IF IsOpaque(x)
         THEN (IF x.n < 0 THEN Fault("ValueError") ELSE IF x.n > 0 THEN Opaque(1) ELSE Untracked)
         ELSE IF x.n < 0 THEN Fault("ValueError")
         ELSE IF x.n = 0 THEN x
         ELSE IF IsSquare(x.n) /\ IsSquare(x.d) THEN MkFloat(ISqrt(x.n), ISqrt(x.d))
         ELSE Opaque(1)
    [] fname \in {"log", "log10"} ->
         IF IsOpaque(x)
         THEN IF x.n < 0 THEN Fault("ValueError")
              ELSE IF x.f = "e" THEN (IF fname = "log" THEN MkFloat(1, 1) ELSE Opaque(1))
              ELSE IF x.f = "pi" THEN Opaque(1)
              ELSE IF x.n > 0 THEN Opaque(0)
              ELSE Untracked
         ELSE IF x.n <= 0 THEN Fault("ValueError")
         ELSE IF x.n = x.d THEN MkFloat(0, 1)
         ELSE IF x.n > x.d THEN Opaque(1) ELSE Opaque(-1)
    [] fname = "exp" ->
         IF IsOpaque(x) THEN Opaque(1)
         ELSE IF x.n = 0 THEN MkFloat(1, 1)
         ELSE IF FloatGreater(x, 709) THEN Fault("OverflowError")
         ELSE Opaque(1)
    [] fname = "sin" ->
         IF IsOpaque(x) THEN (IF x.f \in {"pi", "e"} THEN Opaque(1) ELSE Opaque(0))
         ELSE IF x.n = 0 THEN x
         ELSE IF Abs(x.n) <= 3 * x.d THEN Opaque(Sgn(x.n))
         ELSE Opaque(0)
    [] fname = "cos" ->
         IF IsOpaque(x)
         THEN (IF x.f = "pi" THEN MkFloat(-1, 1) ELSE IF x.f = "e" THEN Opaque(-1) ELSE Opaque(0))
         ELSE IF x.n = 0 THEN MkFloat(1, 1)
         ELSE IF 2 * Abs(x.n) <= 3 * x.d THEN Opaque(1)
         ELSE Opaque(0)
    [] fname = "tan" ->
         IF IsOpaque(x) THEN (IF x.f \in {"pi", "e"} THEN Opaque(-1) ELSE Opaque(0))
         ELSE IF x.n = 0 THEN x
         ELSE IF 2 * Abs(x.n) <= 3 * x.d THEN Opaque(Sgn(x.n))
         ELSE Opaque(0)
    [] fname = "asin" ->
         IF IsOpaque(x) THEN (IF x.f \in {"pi", "e"} THEN Fault("ValueError") ELSE Untracked)
         ELSE IF x.n = 0 THEN x
         ELSE IF Abs(x.n) > x.d THEN Fault("ValueError")
         ELSE Opaque(Sgn(x.n))
    [] fname = "acos" ->
         IF IsOpaque(x) THEN (IF x.f \in {"pi", "e"} THEN Fault("ValueError") ELSE Untracked)
         ELSE IF Abs(x.n) > x.d THEN Fault("ValueError")
         ELSE IF x.n = x.d THEN MkFloat(0, 1)
         ELSE Opaque(1)
    [] fname = "atan" ->
         IF IsOpaque(x) THEN Opaque(x.n)
         ELSE IF x.n = 0 THEN x
         ELSE Opaque(Sgn(x.n))

\* round(x, nd) for a number x and an integer nd
RoundTo(x, nd) ==
  IF IsIntLike(x)
  THEN IF nd >= 0 THEN IntV(x.n)
       ELSE IntV(RoundHalfEven(x.n, IntPow(10, -nd)) * IntPow(10, -nd))
  ELSE IF IsOpaque(x) THEN Untracked
  ELSE IF DecPlaces(x.d, 0) # -1 /\ DecPlaces(x.d, 0) <= nd THEN x
  ELSE LET num == IF nd >= 0 THEN x.n * IntPow(10, nd) ELSE x.n
           den == IF nd >= 0 THEN x.d ELSE x.d * IntPow(10, -nd)
           q == RoundHalfEven(num, den)
           tie == 2 * (num - (num \div den) * den) = den
       IN IF tie /\ ~IsPowerOfTwo(x.d) THEN Untracked
          ELSE IF nd >= 0 THEN MkFloatZ(q, IntPow(10, nd), IsNeg(x))
          ELSE MkFloatZ(q * IntPow(10, -nd), 1, IsNeg(x))

\* round(x)
RoundInt(x) ==
  IF IsIntLike(x) THEN IntV(x.n)
  ELSE IF IsOpaque(x) THEN (IF x.f \in {"pi", "e"} THEN IntV(3) ELSE Untracked)
  ELSE IF 2 * (x.n - (x.n \div x.d) * x.d) = x.d /\ ~IsPowerOfTwo(x.d) THEN Untracked
  ELSE IntV(RoundHalfEven(x.n, x.d))

\* int(x) for a number: truncation towards zero
TruncInt(x) ==
  IF IsIntLike(x) THEN IntV(x.n)
  ELSE IF IsOpaque(x)
  THEN (IF x.f = "pi" THEN IntV(3) ELSE IF x.f = "e" THEN IntV(2) ELSE Untracked)
  ELSE IF x.n >= 0 THEN IntV(x.n \div x.d) ELSE IntV(-((-x.n) \div x.d))

\* fname(args) for a name of SAFE_MATH bound to a callable; the arguments
\* are values, none of them a fault
CallFunc(fname, args) ==
  CASE fname \in {"sin", "cos", "tan", "asin", "acos", "atan", "sqrt", "exp", "log10"} ->
         IF Len(args) # 1 THEN Fault("TypeError")
         ELSE IF ~IsNum(args[1]) THEN Fault("TypeError")
         ELSE MathCall(fname, ToFloat(args[1]))
    [] fname = "log" ->
         IF Len(args) \notin {1, 2} THEN Fault("TypeError")
         ELSE IF \E i \in 1..Len(args) : ~IsNum(args[i]) THEN Fault("TypeError")
         ELSE IF Len(args) = 1 THEN MathCall("log", ToFloat(args[1]))
         ELSE LET num == MathCall("log", ToFloat(args[1]))
                  den == MathCall("log", ToFloat(args[2]))
              IN BinOp("/", num, den)
    [] fname = "pow" ->
         IF Len(args) = 2 THEN BinOp("**", args[1], args[2])
         ELSE IF Len(args) # 3 THEN Fault("TypeError")
         ELSE IF \E i \in 1..3 : ~IsIntLike(args[i]) THEN Fault("TypeError")
         ELSE IF args[3].n = 0 THEN Fault("ValueError")
         ELSE IF args[2].n < 0 \/ Abs(args[3].n) > 30000 THEN Untracked
         ELSE IntV(ModPow(args[1].n, args[2].n, args[3].n))
    [] fname = "abs" ->
         IF Len(args) # 1 THEN Fault("TypeError")
         ELSE IF IsIntLike(args[1]) THEN IntV(Abs(args[1].n))
         ELSE IF IsOpaque(args[1]) THEN (IF args[1].n > 0 THEN args[1] ELSE Opaque(-args[1].n))
         ELSE IF args[1].t = "float" THEN MkFloat(Abs(args[1].n), args[1].d)
         ELSE IF args[1].f = "complex" THEN Untracked
         ELSE Fault("TypeError")
    [] fname = "round" ->
         IF Len(args) \notin {1, 2} THEN Fault("TypeError")
         ELSE IF ~IsNum(args[1]) THEN (IF args[1].f = "complex" THEN Untracked ELSE Fault("TypeError"))
         ELSE IF Len(args) = 1 THEN RoundInt(args[1])
         ELSE IF args[2].f = "None" THEN RoundInt(args[1])
         ELSE IF ~IsIntLike(args[2]) THEN Fault("TypeError")
         ELSE RoundTo(args[1], args[2].n)
    [] fname = "int" ->
         IF Len(args) = 0 THEN IntV(0)
         ELSE IF Len(args) > 2 THEN Fault("TypeError")
         ELSE IF Len(args) = 2 THEN Fault("TypeError")
         ELSE IF IsNum(args[1]) THEN TruncInt(args[1])
         ELSE Fault("TypeError")
    [] fname = "float" ->
         IF Len(args) = 0 THEN MkFloat(0, 1)
         ELSE IF Len(args) > 1 THEN Fault("TypeError")
         ELSE IF IsNum(args[1]) THEN ToFloat(args[1])
         ELSE Fault("TypeError")

\* callee(args): the callee is evaluated first, then the arguments from
\* left to right, then the call is made
CallValue(callee, args) ==
  IF callee.t = "fault" THEN callee
  ELSE IF \E i \in 1..Len(args) : args[i].t = "fault"
  THEN args[CHOOSE i \in 1..Len(args) :
              args[i].t = "fault" /\ \A j \in 1..(i - 1) : args[j].t # "fault"]
  ELSE IF callee.t = "untracked" \/ \E i \in 1..Len(args) : args[i].t \in {"untracked", "long"}
  THEN Untracked
  ELSE IF callee.t = "func" THEN CallFunc(callee.f, args)
  ELSE IF callee.t = "obj" /\ callee.f \in {"method", "descriptor"} THEN Untracked
  ELSE Fault("TypeError")

\* ------------------------------------------------------------------------
\* eval(prepared, EVAL_GLOBALS, {}): parsing and evaluation
\* ------------------------------------------------------------------------
\* The expression grammar, over the tokens the character whitelist lets
\* through (no comparison, bitwise, subscript or string token can be
\* written):
\*   expressions: sum (',' sum)* [',']
\*   sum:         term (('+' | '-') term)*
\*   term:        factor (('*' | '/' | '//' | '%') factor)*
\*   factor:      ('+' | '-') factor | power
\*   power:       primary ['**' factor]
\*   primary:     atom ('.' NAME | '(' [arguments] ')')*
\*   atom:        NAME | NUMBER | '...' | '(' [expressions] ')'
\* eval() compiles the whole text before anything runs: the parsers build
\* the tree of the expression, Value evaluates it. A tree node is a record
\* [k, op, name, v, args]: k = "num" with the value v, "name" with the
\* identifier, "ellipsis", "unary" and "binary" with the operator op and the
\* operands args, "attr" with the object args[1] and the attribute name,
\* "call" with the callee args[1] and the arguments after it, "starred" for
\* an argument written with * or **, "tuple" with its items.
Node(kind, o, nm, val, children) ==
  [k |-> kind, op |-> o, name |-> nm, v |-> val, args |-> children]

\* Each parser returns [ok, v, p]: ok is FALSE on a syntax error, v is the
\* tree, p is the index of the next token.
SyntaxFail == [ok |-> FALSE, v |-> Node("", "", <<>>, IntV(0), <<>>), p |-> 0]

Parsed(tree, next) == [ok |-> TRUE, v |-> tree, p |-> next]

\* the value of a tuple display: its items are evaluated left to right
TupleValue(items) ==
  IF \E i \in 1..Len(items) : items[i].t = "fault"
  THEN items[CHOOSE i \in 1..Len(items) :
               items[i].t = "fault" /\ \A j \in 1..(i - 1) : items[j].t # "fault"]
  ELSE IF \E i \in 1..Len(items) : items[i].t = "untracked" THEN Untracked
  ELSE Obj("tuple")

RECURSIVE Value(_)
\* the value of a tree, or the fault its evaluation raises; operands are
\* evaluated left to right and the first fault is the one raised. The
\* operand of a starred argument is evaluated; what unpacking it gives is
\* left open
Value(node) ==
  IF node.k = "num" THEN node.v
  ELSE IF node.k = "name" THEN LookupName(node.name)
  ELSE IF node.k = "ellipsis" THEN Obj("ellipsis")
  ELSE IF node.k = "unary" THEN UnaryOp(node.op, Value(node.args[1]))
  ELSE IF node.k = "binary"
  THEN BinOp(node.op, Value(node.args[1]), Value(node.args[2]))
  ELSE IF node.k = "attr" THEN GetAttr(Value(node.args[1]), node.name)
  ELSE IF node.k = "call"
  THEN CallValue(Value(node.args[1]),
                 [i \in 1..(Len(node.args) - 1) |-> Value(node.args[i + 1])])
  ELSE IF node.k = "starred"
  THEN IF Value(node.args[1]).t = "fault" THEN Value(node.args[1]) ELSE Untracked
  ELSE TupleValue([i \in 1..Len(node.args) |-> Value(node.args[i])])

RECURSIVE ParseSum(_, _)
RECURSIVE ParseSumRest(_, _)
RECURSIVE ParseTerm(_, _)
RECURSIVE ParseTermRest(_, _)
RECURSIVE ParseFactor(_, _)
RECURSIVE ParsePower(_, _)
RECURSIVE ParseTrailers(_, _)
RECURSIVE ParseAtom(_, _)
RECURSIVE ParseItems(_, _, _)

ItemsFail == [ok |-> FALSE, items |-> <<>>, trailing |-> FALSE, p |-> 0]

\* a token that stars an item
IsStar(tok) == IsOp(tok, "*") \/ IsOp(tok, "**")

\* the items after the item acc ends with, ts[p] being the token after it
ParseItemsNext(ts, p, acc) ==
  IF IsOp(ts[p], ",") THEN ParseItems(ts, p + 1, acc)
  ELSE IF IsOp(ts[p], ")")
  THEN [ok |-> TRUE, items |-> acc, trailing |-> FALSE, p |-> p + 1]
  ELSE ItemsFail

\* the items from the item r on
ParseItemsFrom(ts, acc, starred, r) ==
  IF ~r.ok THEN ItemsFail
  ELSE ParseItemsNext(ts, r.p,
         Append(acc, IF starred THEN Node("starred", "", <<>>, IntV(0), <<r.v>>)
                     ELSE r.v))

\* the items up to the closing parenthesis, ts[p] being the token after the
\* opening one or after a comma: [ok, items, trailing, p]
ParseItems(ts, p, acc) ==
  IF IsOp(ts[p], ")")
  THEN [ok |-> TRUE, items |-> acc, trailing |-> acc # <<>>, p |-> p + 1]
  ELSE ParseItemsFrom(ts, acc, IsStar(ts[p]),
                      ParseSum(ts, IF IsStar(ts[p]) THEN p + 1 ELSE p))

\* the tree of the items: one item without a comma is the item itself
ItemsTree(items, comma) ==
  IF Len(items) = 1 /\ ~comma THEN items[1]
  ELSE Node("tuple", "", <<>>, IntV(0), items)

\* the atom '(' [expressions] ')' of the items r; a starred item needs a
\* tuple around it
ParenAtom(r) ==
  IF ~r.ok THEN SyntaxFail
  ELSE IF Len(r.items) = 1 /\ ~r.trailing /\ r.items[1].k = "starred" THEN SyntaxFail
  ELSE Parsed(ItemsTree(r.items, r.trailing), r.p)

ParseAtom(ts, p) ==
  IF ts[p].k = "num" THEN Parsed(Node("num", "", <<>>, ts[p].v, <<>>), p + 1)
  ELSE IF ts[p].k = "name"
  THEN Parsed(Node("name", "", ts[p].name, IntV(0), <<>>), p + 1)
  ELSE IF IsOp(ts[p], "...")
  THEN Parsed(Node("ellipsis", "", <<>>, IntV(0), <<>>), p + 1)
  ELSE IF IsOp(ts[p], "(") THEN ParenAtom(ParseItems(ts, p + 1, <<>>))
  ELSE SyntaxFail

\* the call of the tree callee with the arguments r
CallOf(callee, r) ==
  IF ~r.ok THEN SyntaxFail
  ELSE Parsed(Node("call", "", <<>>, IntV(0), <<callee>> \o r.items), r.p)

\* the primary that starts with the tree r
ParseTrailers(ts, r) ==
  IF ~r.ok THEN SyntaxFail
  ELSE IF IsOp(ts[r.p], ".")
  THEN IF ts[r.p + 1].k = "name"
       THEN ParseTrailers(ts, Parsed(Node("attr", "", ts[r.p + 1].name, IntV(0), <<r.v>>),
                                     r.p + 2))
       ELSE SyntaxFail
  ELSE IF IsOp(ts[r.p], "(")
  THEN ParseTrailers(ts, CallOf(r.v, ParseItems(ts, r.p + 1, <<>>)))
  ELSE r

\* the operation o on the tree a and the tree parsed after it
Binary(o, a, b) ==
  IF ~b.ok THEN SyntaxFail
  ELSE Parsed(Node("binary", o, <<>>, IntV(0), <<a.v, b.v>>), b.p)

\* the operation o on the tree parsed after it
Unary(o, r) ==
  IF ~r.ok THEN SyntaxFail ELSE Parsed(Node("unary", o, <<>>, IntV(0), <<r.v>>), r.p)

\* the power whose primary is b
PowerFrom(ts, b) ==
  IF ~b.ok THEN SyntaxFail
  ELSE IF IsOp(ts[b.p], "**") THEN Binary("**", b, ParseFactor(ts, b.p + 1))
  ELSE b

ParsePower(ts, p) == PowerFrom(ts, ParseTrailers(ts, ParseAtom(ts, p)))

ParseFactor(ts, p) ==
  IF IsOp(ts[p], "+") \/ IsOp(ts[p], "-")
  THEN Unary(ts[p].op, ParseFactor(ts, p + 1))
  ELSE ParsePower(ts, p)

ParseTermRest(ts, acc) ==
  IF ~acc.ok THEN SyntaxFail
  ELSE IF ts[acc.p].k = "op" /\ ts[acc.p].op \in {"*", "/", "//", "%"}
  THEN ParseTermRest(ts, Binary(ts[acc.p].op, acc, ParseFactor(ts, acc.p + 1)))
  ELSE acc

ParseTerm(ts, p) == ParseTermRest(ts, ParseFactor(ts, p))

ParseSumRest(ts, acc) ==
  IF ~acc.ok THEN SyntaxFail
  ELSE IF ts[acc.p].k = "op" /\ ts[acc.p].op \in {"+", "-"}
  THEN ParseSumRest(ts, Binary(ts[acc.p].op, acc, ParseTerm(ts, acc.p + 1)))
  ELSE acc

ParseSum(ts, p) == ParseSumRest(ts, ParseTerm(ts, p))

\* the input ends at token p: the end token, or the newline that closes the
\* line of the expression and then the end token
AtEnd(ts, p) == ts[p].k = "end" \/ (IsOp(ts[p], "\n") /\ ts[p + 1].k = "end")

\* the line of the expression is complete at token p and the next line is
\* indented: the parser has accepted the line when the tokenizer reports the
\* indentation
AtIndent(ts, p) == IsOp(ts[p], "\n") /\ ts[p + 1] = IndentTok

\* the input is complete at token p
AtClose(ts, p) == AtEnd(ts, p) \/ AtIndent(ts, p)

RECURSIVE ParseExpressions(_, _, _)
\* the whole input from the item r on, the items before it in acc
ParseExpressionsFrom(ts, acc, r) ==
  IF ~r.ok THEN SyntaxFail
  ELSE IF AtClose(ts, r.p) THEN Parsed(ItemsTree(Append(acc, r.v), FALSE), r.p)
  ELSE IF IsOp(ts[r.p], ",")
  THEN IF AtClose(ts, r.p + 1) THEN Parsed(ItemsTree(Append(acc, r.v), TRUE), r.p + 1)
       ELSE ParseExpressions(ts, r.p + 1, Append(acc, r.v))
  ELSE SyntaxFail

\* the whole input from token p on, the items before it in acc
ParseExpressions(ts, p, acc) == ParseExpressionsFrom(ts, acc, ParseSum(ts, p))

\* what eval() gives for the parse r of the tokens ts
EvalParsed(ts, r) ==
  IF ~r.ok THEN Fault("SyntaxError")
  ELSE IF AtIndent(ts, r.p) THEN Fault("IndentationError")
  ELSE Value(r.v)

\* what eval() gives for the tokens ts
EvalTokens(ts) ==
  IF \E i \in 1..Len(ts) : ts[i].k = "name" /\ ts[i].name \in KeywordOperators
  THEN Untracked
  ELSE IF ts[1] = IndentTok THEN Fault("IndentationError")
  ELSE EvalParsed(ts, ParseExpressions(ts, 1, <<>>))

\* eval(text, EVAL_GLOBALS, {}): the value of the expression, or the fault
\* raised by compiling or evaluating it
PyEval(text) == EvalTokens(Tokenize(text, 1, 0, TRUE))

\* ------------------------------------------------------------------------
\* _safe_eval
\* ------------------------------------------------------------------------
\* the exceptions the evaluation can raise; all of them derive from
\* Exception
ExceptionKinds ==
  {"SyntaxError", "IndentationError", "NameError", "TypeError", "ValueError", "ZeroDivisionError",
   "AttributeError", "OverflowError"}

\* a variant of the except clause that takes syntax and name errors only
CaughtSyntaxAndNames(kind) == kind \in {"SyntaxError", "IndentationError", "NameError"}

\* 'except Exception as e' around the evaluation
Caught(kind) == kind \in ExceptionKinds

\* float(result) for a result that is neither int nor float: no such value
\* of the language converts
Coerce(result) == IF IsNum(result) \/ result.t = "long" THEN result ELSE Fault("ValueError")

\* what the try block of _safe_eval makes of the result of eval():
\* [status, val, fault, evaluated], where status is "ok", "EvaluationError"
\* (ValueError "Error evaluating expression."), "Uncaught" (an exception
\* that leaves _safe_eval as it was raised) or "untracked"; fault is the
\* exception raised inside the block, evaluated tells that eval() was called
TryResult(result) ==
  LET coerced == IF result.t \in {"fault", "untracked"} THEN result ELSE Coerce(result)
  IN IF coerced.t = "untracked"
     THEN [status |-> "untracked", val |-> coerced, fault |-> "", evaluated |-> TRUE]
     ELSE IF coerced.t = "fault"
     THEN [status |-> IF Caught(coerced.f) THEN "EvaluationError" ELSE "Uncaught",
           val |-> result, fault |-> coerced.f, evaluated |-> TRUE]
     ELSE [status |-> "ok", val |-> coerced, fault |-> "", evaluated |-> TRUE]

\* the try block of _safe_eval
EvalStep(prepared) == TryResult(PyEval(prepared))

\* _safe_eval from the safety check on
EvalPrepared(prepared) ==
  IF IsUnsafe(prepared)
  THEN [status |-> "UnsafeExpression", val |-> IntV(0), fault |-> "", evaluated |-> FALSE]
  ELSE EvalStep(prepared)

\* _safe_eval(expr): [status, val, fault, evaluated]
safe_eval(expr) ==
  IF IsBlank(expr)
  THEN [status |-> "ok", val |-> IntV(0), fault |-> "", evaluated |-> FALSE]
  ELSE IF ~AllowedCharsMatch(expr)
  THEN [status |-> "InvalidExpression", val |-> IntV(0), fault |-> "", evaluated |-> FALSE]
  ELSE EvalPrepared(safe_prepare(expr))

\* ------------------------------------------------------------------------
\* str() of a number
\* ------------------------------------------------------------------------
RECURSIVE NatStr(_)
\* the decimal digits of a natural number
NatStr(k) == IF k < 10 THEN <<HexDigitSeq[k + 1]>> ELSE Append(NatStr(k \div 10), HexDigitSeq[(k % 10) + 1])

IntStr(k) == IF k < 0 THEN <<"-">> \o NatStr(-k) ELSE NatStr(k)

RECURSIVE RStrip(_, _)
\* s.rstrip(c)
RStrip(s, c) == IF s # <<>> /\ s[Len(s)] = c THEN RStrip(SubSeq(s, 1, Len(s) - 1), c) ELSE s

RECURSIVE Zeros(_)
Zeros(k) == IF k <= 0 THEN <<>> ELSE <<"0">> \o Zeros(k - 1)

\* repr of a positive float from its digits ds without trailing zeros and
\* the position decpt of the point (the value is 0.ds * 10^decpt);
\* scientific notation when the exponent decpt - 1 is below -4 or at least
\* 16
FloatLayout(ds, decpt) ==
  IF decpt - 1 < -4 \/ decpt - 1 >= 16
  THEN <<ds[1]>> \o (IF Len(ds) > 1 THEN <<".">> \o Tail(ds) ELSE <<>>)
       \o <<"e", IF decpt - 1 < 0 THEN "-" ELSE "+">>
       \o (IF Abs(decpt - 1) < 10 THEN <<"0">> ELSE <<>>) \o NatStr(Abs(decpt - 1))
  ELSE IF decpt <= 0 THEN <<"0", ".">> \o Zeros(-decpt) \o ds
  ELSE IF decpt < Len(ds) THEN SubSeq(ds, 1, decpt) \o <<".">> \o SubSeq(ds, decpt + 1, Len(ds))
  ELSE ds \o Zeros(decpt - Len(ds)) \o <<".", "0">>

\* repr of the positive float num/den, which has k decimal places
ScaledDigits(num, den, k) ==
  LET all == NatStr(num * (IntPow(10, k) \div den))
  IN FloatLayout(RStrip(all, "0"), Len(all) - k)

\* repr of a positive float num/den with an ending decimal expansion
FloatDigitsStr(num, den) == ScaledDigits(num, den, DecPlaces(den, 0))

\* str(v) for a float; the model carries no digits for a float it holds as
\* opaque, other than pi and e, nor for a fraction whose expansion does not
\* end: "?" stands for the digits of such a float
FloatStr(v) ==
  IF v.f = "pi" THEN <<"3", ".", "1", "4", "1", "5", "9", "2", "6", "5", "3", "5", "8", "9", "7", "9", "3">>
  ELSE IF v.f = "e" THEN <<"2", ".", "7", "1", "8", "2", "8", "1", "8", "2", "8", "4", "5", "9", "0", "4", "5">>
  ELSE IF v.d = 0 THEN (IF v.n < 0 THEN <<"-", "?">> ELSE <<"?">>)
  ELSE IF v.n = 0 THEN (IF v.f = "-0" THEN <<"-", "0", ".", "0">> ELSE <<"0", ".", "0">>)
  ELSE IF DecPlaces(v.d, 0) = -1 THEN (IF v.n < 0 THEN <<"-", "?">> ELSE <<"?">>)
  ELSE (IF v.n < 0 THEN <<"-">> ELSE <<>>) \o FloatDigitsStr(Abs(v.n), v.d)

\* str(v) raises ValueError for an int of more than 4300 digits
\* (sys.int_max_str_digits of CPython 3.11)
StrRaises(v) == v.t = "long" /\ LongLo(v) > 4300

\* the model can tell what str(v) does and, where it returns, which text
StrKnown(v) == v.t = "long" => LongLo(v) > 4300 \/ LongHi(v) <= 4300

\* str(v) for a number; "?" stands for the digits of a long
Str(v) ==
  IF v.t = "int" THEN IntStr(v.n)
  ELSE IF v.t = "long" THEN (IF v.n < 0 THEN <<"-", "?">> ELSE <<"?">>)
  ELSE IF v.t = "bool" THEN (IF v.n = 1 THEN <<"T", "r", "u", "e">> ELSE <<"F", "a", "l", "s", "e">>)
  ELSE FloatStr(v)

\* val.is_integer() for a float
IsInteger(v) == v.d = 1

\* _eval: 'if isinstance(val, float) and val.is_integer(): val = int(val)'
\* and then str(val)
CommitStr(val) ==
  Str(IF val.t = "float" /\ IsInteger(val) THEN TruncInt(val) ELSE val)

\* _update_display: the text shown for a previewed value whose str() is s
PreviewOf(val, s) ==
  IF val.t = "float" /\ \E i \in 1..Len(s) : s[i] = "."
  THEN RStrip(RStrip(Str(RoundTo(val, 10)), "0"), ".")
  ELSE s

\* _update_display: the text shown for a previewed value
PreviewStr(val) == PreviewOf(val, Str(val))

\* ------------------------------------------------------------------------
\* State
\* ------------------------------------------------------------------------
\* The calculator window:
\*   expr        self.expr, the expression being edited
\*   expr_var    the small expression label
\*   result_var  the large result field
\*   dialog      the message box opened by the latest handler: "none" or
\*               "error"
\*   last        the handler that ran latest: "init", "add", "key", "back",
\*               "clear" or "eval"
\* One call of _safe_eval, followed statement by statement:
\*   text        its argument
\*   pc          the statement it is at: "validate", "prepare", "screen",
\*               "evaluate", "done" ("idle" when no call is followed)
\*   prepared    the local variable prepared
\*   res         what the call has produced: [status, val, fault,
\*               evaluated], status "" while the call runs
VARIABLES expr, expr_var, result_var, dialog, last, text, pc, prepared, res

vars == <<expr, expr_var, result_var, dialog, last, text, pc, prepared, res>>

uiVars == <<expr, expr_var, result_var, dialog, last>>

callVars == <<text, pc, prepared, res>>

Running == [status |-> "", val |-> IntV(0), fault |-> "", evaluated |-> FALSE]

\* ------------------------------------------------------------------------
\* The window and its handlers
\* ------------------------------------------------------------------------
\* the texts of the buttons wired to _add that the model presses
Buttons == {<<"1">>, <<"2">>, <<"5">>, <<".">>}

\* a variant of the bound keys that also binds the caret
KeysWithCaret == {"5", ".", "-", "^"}

\* the keys bound to _on_key that the model types
Keys == {"5", ".", "-"}

\* the keys bound to _on_key that the model types to build powers
PowerKeys == {"9", "*"}

\* a variant of _update_display that shows the expression when the preview
\* fails
DisplayShowsFailedText(e, preview) ==
  IF preview /\ ~IsBlank(e)
  THEN CHOOSE shown \in {IF r.status = "ok" /\ ~StrRaises(r.val) THEN PreviewStr(r.val) ELSE e :
                         r \in {safe_eval(e)}} : TRUE
  ELSE IF e # <<>> THEN e ELSE <<"0">>

\* the try block of _update_display for the outcome r of _safe_eval: the
\* text of the value, nothing when the call or str(val) raises ("?" where
\* the model does not carry the outcome)
Preview(r) ==
  IF r.status = "ok"
  THEN (IF StrRaises(r.val) THEN <<>>
        ELSE IF ~StrKnown(r.val) THEN <<"?">>
        ELSE PreviewStr(r.val))
  ELSE IF r.status = "untracked" THEN <<"?">>
  ELSE <<>>

\* _update_display(preview) for the expression e: the new result_var
Display(e, preview) ==
  IF preview /\ ~IsBlank(e) THEN Preview(safe_eval(e))
  ELSE IF e # <<>> THEN e ELSE <<"0">>

\* __init__ and _create_widgets
UIInit ==
  /\ expr = <<>>
  /\ expr_var = <<>>
  /\ result_var = <<"0">>
  /\ dialog = "none"
  /\ last = "init"

\* _add(ch): a button appends its text
Add(ch) ==
  /\ expr' = expr \o ch
  /\ expr_var' = expr'
  /\ result_var' = Display(expr', TRUE)
  /\ dialog' = "none"
  /\ last' = "add"
  /\ UNCHANGED callVars

\* _on_key(ch): a bound key appends its character
OnKey(ch) ==
  /\ ch # ""
  /\ expr' = Append(expr, ch)
  /\ expr_var' = expr'
  /\ result_var' = Display(expr', TRUE)
  /\ dialog' = "none"
  /\ last' = "key"
  /\ UNCHANGED callVars

\* _back: the back button and <BackSpace>
Back ==
  /\ expr' = SubSeq(expr, 1, Len(expr) - 1)
  /\ expr_var' = expr'
  /\ result_var' = Display(expr', TRUE)
  /\ dialog' = "none"
  /\ last' = "back"
  /\ UNCHANGED callVars

\* _clear: the C button and <Escape>
Clear ==
  /\ expr' = <<>>
  /\ expr_var' = expr'
  /\ result_var' = Display(expr', FALSE)
  /\ dialog' = "none"
  /\ last' = "clear"
  /\ UNCHANGED callVars

\* the ValueErrors _safe_eval raises, which _eval handles
ValueErrors == {"InvalidExpression", "UnsafeExpression", "EvaluationError"}

\* the model carries what _eval does with the expression e: the value of e,
\* and the digits of the text a commit stores
Carried(e) ==
  \E r \in {safe_eval(e)} :
     /\ r.status # "untracked"
     /\ r.status = "ok" =>
          /\ StrKnown(r.val)
          /\ ~StrRaises(r.val) =>
               \E s \in {CommitStr(r.val)} : \A i \in 1..Len(s) : s[i] # "?"

\* a variant of _eval that clears the expression when the commit fails
EvalClearsOnFailure ==
  /\ Carried(expr)
  /\ last' = "eval"
  /\ UNCHANGED callVars
  /\ \E r \in {safe_eval(expr)} :
        IF r.status = "ok" /\ ~StrRaises(r.val)
        THEN /\ expr' = CommitStr(r.val)
             /\ expr_var' = expr'
             /\ result_var' = Display(expr', FALSE)
             /\ dialog' = "none"
        ELSE /\ dialog' = "error"
             /\ expr' = <<>>
             /\ expr_var' = <<>>
             /\ result_var' = <<"0">>

\* _eval: the = button, <Return> and <KP_Enter>. The except clause also
\* takes the ValueError of str(val).
Eval ==
  /\ Carried(expr)
  /\ last' = "eval"
  /\ UNCHANGED callVars
  /\ \E r \in {safe_eval(expr)} :
        IF r.status = "ok" /\ ~StrRaises(r.val)
        THEN /\ expr' = CommitStr(r.val)
             /\ expr_var' = expr'
             /\ result_var' = Display(expr', FALSE)
             /\ dialog' = "none"
        ELSE IF r.status = "ok" \/ r.status \in ValueErrors
        THEN /\ dialog' = "error"
             /\ UNCHANGED <<expr, expr_var, result_var>>
        ELSE /\ dialog' = "none"
             /\ UNCHANGED <<expr, expr_var, result_var>>

\* ------------------------------------------------------------------------
\* One call of _safe_eval
\* ------------------------------------------------------------------------
\* the fragments the argument texts are put together from
Frags ==
  {<<"2">>, <<"3">>, <<"0">>, <<"5">>, <<".">>, <<"%">>, <<"^">>, <<"/">>, <<" ">>, <<"\t">>,
   <<"\n">>, <<"_">>, <<")">>, <<"p", "i">>, <<"r", "e", "a", "l">>, <<"f", "o", "o", "(">>,
   <<"l", "n", "(">>, <<"e", "x", "e", "c">>, <<"e", "v", "a", "l">>,
   <<"i", "m", "p", "o", "r", "t">>}

RECURSIVE FragTexts(_)
\* the texts made of at most k fragments
FragTexts(k) ==
  IF k = 0 THEN {<<>>}
  ELSE FragTexts(k - 1) \cup {t \o f : t \in FragTexts(k - 1), f \in Frags}

CallInit ==
  /\ text \in FragTexts(MaxFrags)
  /\ pc = "validate"
  /\ prepared = <<>>
  /\ res = Running

\* 'if not expr.strip(): return 0' and the character whitelist
Validate ==
  /\ pc = "validate"
  /\ IF IsBlank(text)
     THEN /\ res' = [status |-> "ok", val |-> IntV(0), fault |-> "", evaluated |-> FALSE]
          /\ pc' = "done"
     ELSE IF ~AllowedCharsMatch(text)
     THEN /\ res' = [res EXCEPT !.status = "InvalidExpression"]
          /\ pc' = "done"
     ELSE /\ pc' = "prepare"
          /\ res' = res
  /\ UNCHANGED <<text, prepared>>
  /\ UNCHANGED uiVars

\* 'prepared = self._safe_prepare(expr)'
Prepare ==
  /\ pc = "prepare"
  /\ prepared' = safe_prepare(text)
  /\ pc' = "screen"
  /\ UNCHANGED <<text, res>>
  /\ UNCHANGED uiVars

\* the check for '__', 'import', 'exec' and 'eval' in prepared
Screen ==
  /\ pc = "screen"
  /\ IF IsUnsafe(prepared)
     THEN /\ res' = [res EXCEPT !.status = "UnsafeExpression"]
          /\ pc' = "done"
     ELSE /\ pc' = "evaluate"
          /\ res' = res
  /\ UNCHANGED <<text, prepared>>
  /\ UNCHANGED uiVars

\* the try block: eval, the numeric check and the except clause
Evaluate ==
  /\ pc = "evaluate"
  /\ res' = EvalStep(prepared)
  /\ pc' = "done"
  /\ UNCHANGED <<text, prepared>>
  /\ UNCHANGED uiVars

\* ------------------------------------------------------------------------
\* Specifications
\* ------------------------------------------------------------------------
\* the window driven by its events; no call of _safe_eval is followed
Init ==
  /\ UIInit
  /\ text = <<>>
  /\ pc = "idle"
  /\ prepared = <<>>
  /\ res = Running

Next ==
  \/ \E ch \in Buttons : Len(expr) + Len(ch) <= MaxLen /\ Add(ch)
  \/ \E ch \in Keys : Len(expr) < MaxLen /\ OnKey(ch)
  \/ Back
  \/ Clear
  \/ Eval

Spec == Init /\ [][Next]_vars

\* the window driven by the keys that build powers: the model types them
\* into a text made of them, up to MaxPowerLen characters, and follows what
\* the other handlers do with any text
NextPower ==
  \/ \E ch \in PowerKeys :
        /\ Len(expr) < MaxPowerLen
        /\ \A i \in 1..Len(expr) : expr[i] \in PowerKeys
        /\ OnKey(ch)
  \/ Back
  \/ Clear
  \/ Eval

SpecPower == Init /\ [][NextPower]_vars

\* one call of _safe_eval on a text of up to MaxFrags fragments; the window stays as built
InitEval == UIInit /\ CallInit

NextEval == Validate \/ Prepare \/ Screen \/ Evaluate

SpecEval == InitEval /\ [][NextEval]_vars

\* ------------------------------------------------------------------------
\* Properties of one call of _safe_eval (SpecEval)
\* ------------------------------------------------------------------------
\* C1, as the claim states it: once a call that reached eval() is done, a
\* name among the tokens of the prepared text that is no key of SAFE_MATH,
\* an attribute after a dot included, has made the call fail with
\* EvaluationError, so a number is returned only if every name is a key of
\* SAFE_MATH.
C1_OnlyAllowedIdentifiers ==
  (pc = "done" /\ res.evaluated) =>
    LET ts == Tokenize(prepared, 1, 0, TRUE)
    IN (\E i \in 1..Len(ts) : ts[i].k = "name" /\ ts[i].name \notin SafeMathNames)
         => res.status = "EvaluationError"

\* C2: a finished call has returned a number or raised one of the three
\* typed failures, and every exception raised inside the try block of the
\* evaluation step has become the EvaluationError failure.
C2_EveryFaultIsEvaluationError ==
  pc = "done" =>
    /\ res.status \in {"ok", "InvalidExpression", "UnsafeExpression", "EvaluationError"}
    /\ res.fault # "" => (res.evaluated /\ res.status = "EvaluationError")

\* the call on "5/0" has raised ZeroDivisionError inside eval() and ended
\* with EvaluationError
C2_DivisionByZeroCaught ==
  /\ pc = "done"
  /\ text = <<"5", "/", "0">>
  /\ res.evaluated
  /\ res.fault = "ZeroDivisionError"
  /\ res.status = "EvaluationError"

\* C6: a text that passes the character whitelist and whose prepared form
\* contains "__", "import", "exec" or "eval" fails with UnsafeExpression;
\* the text was prepared before the screen ran, and eval() was not called.
C6_UnsafeTextRejected ==
  (/\ pc = "done"
   /\ \A i \in 1..Len(text) : text[i] \in ALLOWED_CHARS
   /\ \/ Contains(safe_prepare(text), <<"_", "_">>)
      \/ Contains(safe_prepare(text), <<"i", "m", "p", "o", "r", "t">>)
      \/ Contains(safe_prepare(text), <<"e", "x", "e", "c">>)
      \/ Contains(safe_prepare(text), <<"e", "v", "a", "l">>))
  => (res.status = "UnsafeExpression" /\ ~res.evaluated /\ prepared = safe_prepare(text))

\* a call on a text holding the word eval has ended with UnsafeExpression
\* after preparing the text and without calling eval()
C6_EvalWordRejected ==
  /\ pc = "done"
  /\ Contains(prepared, <<"e", "v", "a", "l">>)
  /\ res.status = "UnsafeExpression"
  /\ ~res.evaluated

\* C7, as the claim states it: a text that is not blank and holds a
\* character outside digits, + - * / ( ) . % , space and the ASCII letters
\* fails with InvalidExpression, before it is prepared or evaluated.
C7_DocumentedWhitelistRejects ==
  (/\ pc = "done"
   /\ ~IsBlank(text)
   /\ \E i \in 1..Len(text) :
        text[i] \notin Digits \cup Letters \cup {"+", "-", "*", "/", "(", ")", ".", "%", ",", " "})
  => (res.status = "InvalidExpression" /\ ~res.evaluated /\ prepared = <<>>)

\* C7, amended: a text that is not blank and holds a character outside
\* digits, + - * / ( ) . % , space, tab, newline, underscore and the ASCII
\* letters fails with InvalidExpression, before it is prepared or evaluated.
C7_WhitelistRejects ==
  (/\ pc = "done"
   /\ ~IsBlank(text)
   /\ \E i \in 1..Len(text) :
        text[i] \notin Digits \cup Letters
                       \cup {"+", "-", "*", "/", "(", ")", ".", "%", ",", " ", "\t", "\n", "_"})
  => (res.status = "InvalidExpression" /\ ~res.evaluated /\ prepared = <<>>)

\* the call on "2^3" has ended with InvalidExpression, the text neither
\* prepared nor evaluated
C7_CaretRejected ==
  /\ pc = "done"
  /\ text = <<"2", "^", "3">>
  /\ res.status = "InvalidExpression"
  /\ ~res.evaluated
  /\ prepared = <<>>

\* C8, as the claim states it: for one-digit literals a and b the call on
\* "a^b" returns a to the power b; "2^3" returns 8.
C8_CaretIsPower ==
  pc = "done" =>
    \A a, b \in 0..9 :
      text = <<HexDigitSeq[a + 1], "^", HexDigitSeq[b + 1]>>
        => (res.status = "ok" /\ res.val = IntV(IntPow(a, b)))

\* C9, as the claim states it: for a literal n written with digits and at
\* most one point, the text "n%" is prepared as "(n/100)" and the call
\* returns n/100; "50%" returns 0.5.
C9_PercentOfLiteral ==
  (/\ pc = "done"
   /\ Len(text) >= 2
   /\ text[Len(text)] = "%"
   /\ LET n == SubSeq(text, 1, Len(text) - 1)
          ts == Tokenize(n, 1, 0, TRUE)
      IN /\ \A i \in 1..Len(n) : n[i] \in Digits \cup {"."}
         /\ Len(ts) = 2
         /\ ts[1].k = "num"
         /\ ts[1].v.t \in {"int", "float"})
  => LET n == SubSeq(text, 1, Len(text) - 1)
         v == Tokenize(n, 1, 0, TRUE)[1].v
     IN /\ prepared = <<"(">> \o n \o <<"/", "1", "0", "0", ")">>
        /\ res.status = "ok"
        /\ res.val = BinOp("/", v, IntV(100))

\* ------------------------------------------------------------------------
\* Properties of the window (Spec, SpecPower)
\* ------------------------------------------------------------------------
\* C3: a commit of an expression on which _safe_eval fails with
\* InvalidExpression, UnsafeExpression or EvaluationError opens the error
\* dialog and leaves the stored expression as it was.
C3_FailedCommitKeepsExpr ==
  [][(/\ last' = "eval"
      /\ safe_eval(expr).status \in {"InvalidExpression", "UnsafeExpression", "EvaluationError"})
     => (dialog' = "error" /\ expr' = expr)]_vars

\* a commit of "5-" has failed: the error dialog is open and the expression
\* is still "5-"
C3_ErrorDialogShown ==
  /\ last = "eval"
  /\ dialog = "error"
  /\ expr = <<"5", "-">>

\* C4, as the claim states it: a commit of an expression that _safe_eval
\* evaluates to v stores str(v), an integral float written without its
\* decimal point, the display shows that same text, and a character
\* appended later extends the stored text.
C4_CommitStoresStr ==
  [][/\ (last' = "eval" /\ safe_eval(expr).status = "ok")
          => LET v == safe_eval(expr).val
                 shown == IF v.t = "float" /\ v.d = 1 THEN IntStr(v.n) ELSE Str(v)
             IN expr' = shown /\ expr_var' = shown /\ result_var' = shown
     /\ last' \in {"add", "key"}
          => (Len(expr') > Len(expr) /\ SubSeq(expr', 1, Len(expr)) = expr)]_vars

\* C5: after an append or a backspace that leaves an expression that is not
\* blank and on which _safe_eval fails, the result field is blank, no
\* dialog is open, and the stored expression is the edited text: the old
\* text without its last character, or the old text extended.
C5_FailedPreviewIsBlank ==
  [][(/\ last' \in {"add", "key", "back"}
      /\ ~IsBlank(expr')
      /\ safe_eval(expr').status \in {"InvalidExpression", "UnsafeExpression", "EvaluationError"})
     => /\ result_var' = <<>>
        /\ dialog' = "none"
        /\ expr_var' = expr'
        /\ IF last' = "back" THEN expr' = SubSeq(expr, 1, Len(expr) - 1)
           ELSE Len(expr') > Len(expr) /\ SubSeq(expr', 1, Len(expr)) = expr]_vars

\* the key "-" typed after "5" leaves "5-", whose preview fails: the result
\* field is blank and no dialog is open
C5_BlankPreview ==
  /\ last = "key"
  /\ expr = <<"5", "-">>
  /\ expr_var = <<"5", "-">>
  /\ result_var = <<>>
  /\ dialog = "none"

\* C10: every character of the stored expression is in the character
\* class of ALLOWED_CHARS_RE, so _safe_eval never fails on it with
\* InvalidExpression.
C10_ExprStaysInWhitelist ==
  /\ \A i \in 1..Len(expr) : expr[i] \in ALLOWED_CHARS
  /\ safe_eval(expr).status # "InvalidExpression"

\* a commit of "-.5" has stored "-0.5", a text with a character the user
\* did not type
C10_CommittedTextInWhitelist ==
  /\ last = "eval"
  /\ dialog = "none"
  /\ expr = <<"-", "0", ".", "5">>

====
